---------------------------- MODULE Spec2Model ----------------------------
(***************************************************************************)
(* A model of the ASP -> C# converter (src/app.py): the GroqConverter      *)
(* class (convert_with_groq, clean_groq_output, apply_postprocessing,      *)
(* estimate_tokens, get_usage_info) and, from the design document, the     *)
(* rule-based line transformer and the indentation formatter.              *)
(*                                                                         *)
(* Texts are sequences of one-character strings, so that strip, split,     *)
(* startswith and the regular expressions are computed character by        *)
(* character, as Python computes them.                                     *)
(***************************************************************************)
EXTENDS Integers, Sequences, FiniteSets, TLC

(***************************************************************************)
(* Characters                                                              *)
(***************************************************************************)
NL == "\n"

\* the backquote character, which a TLA+ string cannot hold
BQ == "backquote"

UpperLetters == <<"A","B","C","D","E","F","G","H","I","J","K","L","M",
                  "N","O","P","Q","R","S","T","U","V","W","X","Y","Z">>

LowerLetters == <<"a","b","c","d","e","f","g","h","i","j","k","l","m",
                  "n","o","p","q","r","s","t","u","v","w","x","y","z">>

Digits == {"0","1","2","3","4","5","6","7","8","9"}

UpperSet == {UpperLetters[i] : i \in 1..26}

LowerSet == {LowerLetters[i] : i \in 1..26}

\* str.lower() / str.upper() on one ASCII character
LowerMap == [c \in UpperSet |-> LowerLetters[CHOOSE i \in 1..26 : UpperLetters[i] = c]]

UpperMap == [c \in LowerSet |-> UpperLetters[CHOOSE i \in 1..26 : LowerLetters[i] = c]]

ToLower(c) == IF c \in UpperSet THEN LowerMap[c] ELSE c

ToUpper(c) == IF c \in LowerSet THEN UpperMap[c] ELSE c

\* the characters str.strip() removes and the regular expression \s matches
Whitespace == {" ", "\t", "\n", "\r", "\f"}

\* the characters the regular expression \w matches
WordChars == UpperSet \cup LowerSet \cup Digits \cup {"_"}

(***************************************************************************)
(* Python's str methods                                                    *)
(***************************************************************************)
RECURSIVE lstrip(_)
lstrip(s) == IF s # <<>> /\ Head(s) \in Whitespace THEN lstrip(Tail(s)) ELSE s

RECURSIVE rstrip(_)
rstrip(s) ==
    IF s # <<>> /\ s[Len(s)] \in Whitespace THEN rstrip(SubSeq(s, 1, Len(s) - 1)) ELSE s

strip(s) == rstrip(lstrip(s))

startswith(s, p) == Len(s) >= Len(p) /\ SubSeq(s, 1, Len(p)) = p

endswith(s, p) == Len(s) >= Len(p) /\ SubSeq(s, Len(s) - Len(p) + 1, Len(s)) = p

lower(s) == [i \in 1..Len(s) |-> ToLower(s[i])]

\* s.split('\n'): always at least one piece
RECURSIVE split(_, _)
split(s, sep) ==
    IF \E i \in 1..Len(s) : s[i] = sep
    THEN LET i == CHOOSE k \in 1..Len(s) : s[k] = sep /\ \A j \in 1..(k - 1) : s[j] # sep
         IN  <<SubSeq(s, 1, i - 1)>> \o split(SubSeq(s, i + 1, Len(s)), sep)
    ELSE <<s>>

\* sep.join(parts)
RECURSIVE join(_, _)
join(sep, parts) ==
    IF parts = <<>> THEN <<>>
    ELSE IF Len(parts) = 1 THEN parts[1]
    ELSE parts[1] \o <<sep>> \o join(sep, Tail(parts))

\* whether text t occurs in s
contains(s, t) == \E i \in 1..(Len(s) - Len(t) + 1) : SubSeq(s, i, i + Len(t) - 1) = t

(***************************************************************************)
(* Regular expressions (module re): a backtracking matcher.  A pattern is  *)
(* a tree of records; M gives the matches of a pattern at a position in    *)
(* the order the backtracking search tries them, each with the end of the  *)
(* match and the spans of groups 1 and 2 (<<>>: the group took no part).   *)
(*   lit  a literal text            chr  a character set [...]             *)
(*   nchr a negated set [^...]      seq  a concatenation                   *)
(*   alt  an alternation a|b        opt  r?      plus r+      star r*      *)
(*   grp  a capturing group (r)     nla  the lookahead (?!r)               *)
(*   wb   the word boundary \b      bos  ^ (no MULTILINE)   eos  $         *)
(* ic is re.IGNORECASE.                                                    *)
(***************************************************************************)
Lit(t) == [t |-> "lit", s |-> t]
Chr(cs) == [t |-> "chr", cs |-> cs]
NChr(cs) == [t |-> "nchr", cs |-> cs]
Cat(rs) == [t |-> "seq", rs |-> rs]
Alt(rs) == [t |-> "alt", rs |-> rs]
Opt(r) == [t |-> "opt", r |-> r]
Plus(r) == [t |-> "plus", r |-> r]
Star(r) == [t |-> "star", r |-> r]
Grp(n, r) == [t |-> "grp", n |-> n, r |-> r]
NLA(r) == [t |-> "nla", r |-> r]
WB == [t |-> "wb"]
BOS == [t |-> "bos"]
EOS == [t |-> "eos"]

NoGroups == <<<<>>, <<>>>>

\* one character against one pattern character
CharEq(c, p, ic) == IF ic THEN ToLower(c) = ToLower(p) ELSE c = p

\* one character against a set; a set of the corrections holds no letter
\* whose case matters, the fold is applied all the same
InSet(c, cs, ic) == c \in cs \/ (ic /\ (ToLower(c) \in cs \/ ToUpper(c) \in cs))

LitAt(s, i, t, ic) ==
    /\ i + Len(t) - 1 <= Len(s)
    /\ \A k \in 1..Len(t) : CharEq(s[i + k - 1], t[k], ic)

IsWordAt(s, i) == i >= 1 /\ i <= Len(s) /\ s[i] \in WordChars

MergeG(g1, g2) == [n \in 1..2 |-> IF g2[n] # <<>> THEN g2[n] ELSE g1[n]]

RECURSIVE M(_, _, _, _), MSeq(_, _, _, _, _), MSeqCont(_, _, _, _, _), MAlt(_, _, _, _, _), MPlus(_, _, _, _), MPlusCont(_, _, _, _, _)
M(r, s, i, ic) ==
    CASE r.t = "lit" -> IF LitAt(s, i, r.s, ic) THEN <<[e |-> i + Len(r.s), g |-> NoGroups]>> ELSE <<>>
      [] r.t = "chr" -> IF i <= Len(s) /\ InSet(s[i], r.cs, ic)
                        THEN <<[e |-> i + 1, g |-> NoGroups]>> ELSE <<>>
      [] r.t = "nchr" -> IF i <= Len(s) /\ ~InSet(s[i], r.cs, ic)
                         THEN <<[e |-> i + 1, g |-> NoGroups]>> ELSE <<>>
      [] r.t = "seq" -> MSeq(r.rs, 1, s, i, ic)
      [] r.t = "alt" -> MAlt(r.rs, 1, s, i, ic)
      [] r.t = "opt" -> M(r.r, s, i, ic) \o <<[e |-> i, g |-> NoGroups]>>
      [] r.t = "plus" -> MPlus(r.r, s, i, ic)
      [] r.t = "star" -> MPlus(r.r, s, i, ic) \o <<[e |-> i, g |-> NoGroups]>>
      [] r.t = "grp" -> LET ms == M(r.r, s, i, ic)
                        IN  [k \in 1..Len(ms) |->
                               [e |-> ms[k].e,
                                g |-> [n \in 1..2 |-> IF n = r.n THEN <<i, ms[k].e>>
                                                      ELSE ms[k].g[n]]]]
      [] r.t = "nla" -> IF M(r.r, s, i, ic) = <<>> THEN <<[e |-> i, g |-> NoGroups]>> ELSE <<>>
      [] r.t = "wb" -> IF IsWordAt(s, i - 1) # IsWordAt(s, i)
                       THEN <<[e |-> i, g |-> NoGroups]>> ELSE <<>>
      [] r.t = "bos" -> IF i = 1 THEN <<[e |-> i, g |-> NoGroups]>> ELSE <<>>
      [] r.t = "eos" -> IF i = Len(s) + 1 THEN <<[e |-> i, g |-> NoGroups]>> ELSE <<>>

MSeq(rs, k, s, i, ic) ==
    IF k > Len(rs) THEN <<[e |-> i, g |-> NoGroups]>>
    ELSE MSeqCont(M(rs[k], s, i, ic), rs, k, s, ic)

MSeqCont(ms, rs, k, s, ic) ==
    IF ms = <<>> THEN <<>>
    ELSE LET rest == MSeq(rs, k + 1, s, Head(ms).e, ic)
         IN  [j \in 1..Len(rest) |-> [e |-> rest[j].e, g |-> MergeG(Head(ms).g, rest[j].g)]]
             \o MSeqCont(Tail(ms), rs, k, s, ic)

MAlt(rs, k, s, i, ic) ==
    IF k > Len(rs) THEN <<>> ELSE M(rs[k], s, i, ic) \o MAlt(rs, k + 1, s, i, ic)

\* greedy repetition: the longest run first; a repeated character set is
\* the run of characters in the set, given up one character at a time
MPlus(r, s, i, ic) == MPlusCont(M(r, s, i, ic), r, s, i, ic)

MPlusCont(ms, r, s, i, ic) ==
    IF ms = <<>> THEN <<>>
    ELSE (IF Head(ms).e > i THEN MPlus(r, s, Head(ms).e, ic) ELSE <<>>)
         \o <<[e |-> Head(ms).e, g |-> NoGroups]>>
         \o MPlusCont(Tail(ms), r, s, i, ic)

\* the first match at position i, or <<>>
MatchAt(r, s, i, ic) == LET ms == M(r, s, i, ic) IN IF ms = <<>> THEN <<>> ELSE <<Head(ms)>>

\* re.search from position pos: <<start, match>> of the leftmost match, or <<>>
RECURSIVE SearchFrom(_, _, _, _)
SearchFrom(r, s, pos, ic) ==
    IF pos > Len(s) + 1 THEN <<>>
    ELSE LET m == MatchAt(r, s, pos, ic)
         IN  IF m # <<>> THEN <<pos, m[1]>> ELSE SearchFrom(r, s, pos + 1, ic)

\* the text a group matched
GroupText(s, g, n) == IF g[n] = <<>> THEN <<>> ELSE SubSeq(s, g[n][1], g[n][2] - 1)

\* the replacement template: "\\1" and "\\2" stand for the groups
RECURSIVE Expand(_, _, _)
Expand(tpl, s, g) ==
    IF tpl = <<>> THEN <<>>
    ELSE (IF Head(tpl) = "\\1" THEN GroupText(s, g, 1)
          ELSE IF Head(tpl) = "\\2" THEN GroupText(s, g, 2)
          ELSE <<Head(tpl)>>)
         \o Expand(Tail(tpl), s, g)

\* re.sub(pattern, repl, s, flags): every non-overlapping match, left to
\* right, replaced (no pattern of the program matches the empty text)
RECURSIVE SubFrom(_, _, _, _, _)
SubFrom(r, tpl, s, pos, ic) ==
    LET f == SearchFrom(r, s, pos, ic)
    IN  IF f = <<>> \/ f[2].e = f[1] THEN SubSeq(s, pos, Len(s))
        ELSE SubSeq(s, pos, f[1] - 1) \o Expand(tpl, s, f[2].g)
             \o SubFrom(r, tpl, s, f[2].e, ic)

re_sub(r, tpl, s, ic) == SubFrom(r, tpl, s, 1, ic)

re_search(r, s, ic) == SearchFrom(r, s, 1, ic) # <<>>

(***************************************************************************)
(* GroqConverter.clean_groq_output                                         *)
(***************************************************************************)
\* the pattern of three backquotes, an optional csharp, cs or c#, an optional newline
FenceLangPattern ==
    Cat(<<Lit(<<BQ,BQ,BQ>>),
          Opt(Alt(<<Lit(<<"c","s","h","a","r","p">>), Lit(<<"c","s">>), Lit(<<"c","#">>)>>)),
          Opt(Lit(<<NL>>))>>)

\* the pattern of three backquotes and an optional newline
FencePattern == Cat(<<Lit(<<BQ,BQ,BQ>>), Opt(Lit(<<NL>>))>>)

\* the tuple given to line.startswith
ProsePrefixes ==
    { <<"/","/","/">>,
      <<"H","e","r","e">>,
      <<"N","o","t","e",":">>,
      <<"T","h","e"," ","c","o","n","v","e","r","t","e","d">>,
      <<"O","u","t","p","u","t",":">>,
      <<"T","h","i","s"," ","c","o","n","v","e","r","t","s">> }

\* IsCodeLine without the test of the prose prefixes
IsCodeLine_KeepsProse(line) == line # <<>>

\* the condition under which a stripped line is kept
IsCodeLine(line) == line # <<>> /\ ~(\E p \in ProsePrefixes : startswith(line, p))

\* the for loop over lines: each line stripped, kept when it is a code line
RECURSIVE CodeLines(_)
CodeLines(lines) ==
    IF lines = <<>> THEN <<>>
    ELSE LET line == strip(Head(lines))
         IN  (IF IsCodeLine(line) THEN <<line>> ELSE <<>>) \o CodeLines(Tail(lines))

\* the two re.sub calls that remove the markdown fences (no flags)
RemoveFences(s) == re_sub(FencePattern, <<>>, re_sub(FenceLangPattern, <<>>, s, FALSE), FALSE)

clean_groq_output(output) ==
    IF output = <<>> THEN <<>>
    ELSE join(NL, CodeLines(split(RemoveFences(strip(output)), NL)))

(***************************************************************************)
(* GroqConverter.apply_postprocessing                                      *)
(***************************************************************************)
corrections ==
    <<
      \* 1:  string\s+(\w+)\s*=\s*"?False"?\s*;
      [pattern |-> Cat(<<Lit(<<"s","t","r","i","n","g">>), Plus(Chr(Whitespace)), Grp(1, Plus(Chr(WordChars))),
                        Star(Chr(Whitespace)), Lit(<<"=">>), Star(Chr(Whitespace)), Opt(Lit(<<"\"">>)),
                        Lit(<<"F","a","l","s","e">>), Opt(Lit(<<"\"">>)),
                        Star(Chr(Whitespace)), Lit(<<";">>)>>),
       replacement |-> <<"b","o","o","l"," ","\\1"," ","="," ","f","a","l","s","e",";">>],
      \* 2:  string\s+(\w+)\s*=\s*"?True"?\s*;
      [pattern |-> Cat(<<Lit(<<"s","t","r","i","n","g">>), Plus(Chr(Whitespace)), Grp(1, Plus(Chr(WordChars))),
                        Star(Chr(Whitespace)), Lit(<<"=">>), Star(Chr(Whitespace)), Opt(Lit(<<"\"">>)),
                        Lit(<<"T","r","u","e">>), Opt(Lit(<<"\"">>)),
                        Star(Chr(Whitespace)), Lit(<<";">>)>>),
       replacement |-> <<"b","o","o","l"," ","\\1"," ","="," ","t","r","u","e",";">>],
      \* 3:  \s+&\s+
      [pattern |-> Cat(<<Plus(Chr(Whitespace)), Lit(<<"&">>), Plus(Chr(Whitespace))>>),
       replacement |-> <<" ","+"," ">>],
      \* 4:  \s+<>\s+
      [pattern |-> Cat(<<Plus(Chr(Whitespace)), Lit(<<"<",">">>), Plus(Chr(Whitespace))>>),
       replacement |-> <<" ","!","="," ">>],
      \* 5:  \bAnd\b
      [pattern |-> Cat(<<WB, Lit(<<"A","n","d">>), WB>>),
       replacement |-> <<"&","&">>],
      \* 6:  \bOr\b
      [pattern |-> Cat(<<WB, Lit(<<"O","r">>), WB>>),
       replacement |-> <<"|","|">>],
      \* 7:  \bNot\s+
      [pattern |-> Cat(<<WB, Lit(<<"N","o","t">>), Plus(Chr(Whitespace))>>),
       replacement |-> <<"!">>],
      \* 8:  Response\.Write\s+([^;]+)(?!;)
      [pattern |-> Cat(<<Lit(<<"R","e","s","p","o","n","s","e",".","W","r","i","t","e">>),
                        Plus(Chr(Whitespace)), Grp(1, Plus(NChr({";"}))), NLA(Lit(<<";">>))>>),
       replacement |-> <<"R","e","s","p","o","n","s","e",".","W","r","i","t","e","(","\\1",")",";">>],
      \* 9:  Request\.QueryString\("([^"]+)"\)
      [pattern |-> Cat(<<Lit(<<"R","e","q","u","e","s","t",".","Q","u","e","r","y","S","t","r","i","n","g","(","\"">>),
                        Grp(1, Plus(NChr({"\""}))), Lit(<<"\"",")">>)>>),
       replacement |-> <<"R","e","q","u","e","s","t",".","Q","u","e","r","y","S","t","r","i","n","g","[","\"","\\1","\"","]">>],
      \* 10:  Request\.Form\("([^"]+)"\)
      [pattern |-> Cat(<<Lit(<<"R","e","q","u","e","s","t",".","F","o","r","m","(","\"">>),
                        Grp(1, Plus(NChr({"\""}))), Lit(<<"\"",")">>)>>),
       replacement |-> <<"R","e","q","u","e","s","t",".","F","o","r","m","[","\"","\\1","\"","]">>],
      \* 11:  Session\("([^"]+)"\)
      [pattern |-> Cat(<<Lit(<<"S","e","s","s","i","o","n","(","\"">>),
                        Grp(1, Plus(NChr({"\""}))), Lit(<<"\"",")">>)>>),
       replacement |-> <<"S","e","s","s","i","o","n","[","\"","\\1","\"","]">>],
      \* 12:  Len\(([^)]+)\)
      [pattern |-> Cat(<<Lit(<<"L","e","n","(">>),
                        Grp(1, Plus(NChr({")"}))), Lit(<<")">>)>>),
       replacement |-> <<"\\1",".","L","e","n","g","t","h">>],
      \* 13:  UCase\(([^)]+)\)
      [pattern |-> Cat(<<Lit(<<"U","C","a","s","e","(">>),
                        Grp(1, Plus(NChr({")"}))), Lit(<<")">>)>>),
       replacement |-> <<"\\1",".","T","o","U","p","p","e","r","(",")">>],
      \* 14:  LCase\(([^)]+)\)
      [pattern |-> Cat(<<Lit(<<"L","C","a","s","e","(">>),
                        Grp(1, Plus(NChr({")"}))), Lit(<<")">>)>>),
       replacement |-> <<"\\1",".","T","o","L","o","w","e","r","(",")">>],
      \* 15:  Trim\(([^)]+)\)
      [pattern |-> Cat(<<Lit(<<"T","r","i","m","(">>),
                        Grp(1, Plus(NChr({")"}))), Lit(<<")">>)>>),
       replacement |-> <<"\\1",".","T","r","i","m","(",")">>],
      \* 16:  IsArray\(([^)]+)\)
      [pattern |-> Cat(<<Lit(<<"I","s","A","r","r","a","y","(">>),
                        Grp(1, Plus(NChr({")"}))), Lit(<<")">>)>>),
       replacement |-> <<"(","\\1"," ","i","s"," ","A","r","r","a","y",")">>],
      \* 17:  UBound\(([^)]+)\)
      [pattern |-> Cat(<<Lit(<<"U","B","o","u","n","d","(">>),
                        Grp(1, Plus(NChr({")"}))), Lit(<<")">>)>>),
       replacement |-> <<"(","\\1",".","L","e","n","g","t","h"," ","-"," ","1",")">>],
      \* 18:  ([^;{}\s])\s*\n
      [pattern |-> Cat(<<Grp(1, NChr({";", "{", "}"} \cup Whitespace)), Star(Chr(Whitespace)), Lit(<<NL>>)>>),
       replacement |-> <<"\\1",";",NL>>],
      \* 19:  ;;+
      [pattern |-> Cat(<<Lit(<<";">>), Plus(Lit(<<";">>))>>),
       replacement |-> <<";">>],
      \* 20:  }\s*;
      [pattern |-> Cat(<<Lit(<<"}">>), Star(Chr(Whitespace)), Lit(<<";">>)>>),
       replacement |-> <<"}">>]
    >>

NumCorrections == Len(corrections)

\* flags=re.IGNORECASE | re.MULTILINE: no pattern holds ^ or $, so that
\* IGNORECASE is the flag that acts
re_flags_None == FALSE

re_flags == TRUE

\* one turn of the for loop: safe_code = re.sub(pattern, replacement, safe_code, flags)
ApplyCorrection(k, text) ==
    re_sub(corrections[k].pattern, corrections[k].replacement, text, re_flags)

\* whether correction k matches somewhere in text
CorrectionFires(k, text) == re_search(corrections[k].pattern, text, re_flags)

\* the for loop from correction k on
RECURSIVE RunCorrections(_, _)
RunCorrections(k, text) ==
    IF k > NumCorrections THEN text
    ELSE LET next == ApplyCorrection(k, text)
         IN  IF Len(next) >= 0 THEN RunCorrections(k + 1, next) ELSE next

apply_postprocessing(code) ==
    IF code = <<>> THEN <<>> ELSE strip(RunCorrections(1, strip(code)))

(***************************************************************************)
(* GroqConverter.estimate_tokens                                           *)
(***************************************************************************)
estimate_tokens(text) ==
    IF text = <<>> THEN 0
    ELSE IF strip(text) = <<>> THEN 0
    ELSE Len(strip(text)) \div 4

(***************************************************************************)
(* Python values: a parameter annotated str may hold any object            *)
(***************************************************************************)
PyStr(text) == [ty |-> "str", s |-> text]
PyNone == [ty |-> "NoneType"]
PyInt(n) == [ty |-> "int", n |-> n]

\* what a caller gets from a call that raises instead of returning
PyRaised(class) == [ty |-> "raised", class |-> class]

\* bool(v): None, the empty text and 0 are false
Truthy(v) ==
    CASE v.ty = "str" -> v.s # <<>>
      [] v.ty = "int" -> v.n # 0
      [] OTHER -> FALSE

\* isinstance(v, str)
IsStr(v) == v.ty = "str"

\* str(n) of a natural number
RECURSIVE IntToText(_)
IntToText(n) ==
    LET d == <<"0","1","2","3","4","5","6","7","8","9">>
    IN  IF n < 10 THEN <<d[n + 1]>> ELSE IntToText(n \div 10) \o <<d[(n % 10) + 1]>>

(***************************************************************************)
(* The texts convert_with_groq returns on failure.  Each starts with its   *)
(* emoji, one character; a fixed phrase that no operation looks into is    *)
(* written as one element.                                                 *)
(***************************************************************************)
MarkCross == "U+274C"
MarkKey == "U+1F511"
MarkClock == "U+23F0"

\* line 99
MsgInvalidInput == <<MarkCross, " ", "input code is not valid.">>

\* line 102
MsgInvalidKey == <<MarkKey, " ", "API key is not valid.">>

\* line 148
MsgRateLimited == <<MarkClock, " ", "daily ", "usage exceeded", " or rate limit. Try again later.">>

\* line 150
MsgUnauthorized == <<MarkKey, " ", "API key is wrong", ". Check the key again.">>

\* line 156
MsgTimeout == <<MarkClock, " ", "request timed out. Check the network and try again.">>

\* line 153: the f-string with the status code and the error detail
MsgApiError(status, detail) ==
    <<MarkCross, " ", "Groq API error", " ", "(">> \o IntToText(status) \o <<")", ":", " ">> \o detail

\* line 158: the f-string with str(e)
MsgException(e) == <<MarkCross, " ", "error during conversion", ":", " ">> \o e

(***************************************************************************)
(* The upstream: what requests.post does with the one request              *)
(***************************************************************************)
\* the forms of a response body
\*   completion: JSON with choices[0].message.content, a text
\*   null_content: the same with content null
\*   error_json: a JSON object without 'choices'
\*   no_message: a JSON object whose choices[0] has no 'message'
\*   not_json: bytes that are no JSON
\*   empty: no bytes
Body(form, content) == [form |-> form, content |-> content]

Response(status, body) == [kind |-> "response", status_code |-> status, body |-> body]

\* requests.exceptions.Timeout (ConnectTimeout, ReadTimeout)
RaisesTimeout == [kind |-> "Timeout"]

\* any other exception of requests.post (ConnectionError, ...)
RaisesOther == [kind |-> "ConnectionError"]

\* str() of a parsed JSON body
DictText(body) == <<"{", body.form, "}">> \o body.content

\* response.json(): the text of the exception it raises, or <<>>
JsonError(body) ==
    IF body.form \in {"not_json", "empty"} THEN <<"Expecting value">> ELSE <<>>

\* result['choices'][0]['message']['content'].strip(): the text of the
\* exception raised, or <<>>
ContentError(body) ==
    CASE body.form = "error_json" -> <<"'choices'">>
      [] body.form = "no_message" -> <<"'message'">>
      [] body.form = "null_content" -> <<"'NoneType' object has no attribute 'strip'">>
      [] OTHER -> <<>>

(***************************************************************************)
(* Exceptions.  A call either returns or raises; what the try block of     *)
(* convert_with_groq raises is named by its class.                         *)
(***************************************************************************)
NoException == "none"

\* the classes the upstream and the parsing of its answer raise, all of
\* them subclasses of Exception
ExceptionSubclasses ==
    {"Timeout", "ConnectionError", "JSONDecodeError", "KeyError", "AttributeError"}

\* the class of the exception raised inside the try block, NoException
\* when the block runs to one of its return statements
RaisedClass(outcome) ==
    CASE outcome.kind = "Timeout" -> "Timeout"
      [] outcome.kind = "ConnectionError" -> "ConnectionError"
      [] outcome.kind = "response" ->
            LET body == outcome.body
            IN  IF outcome.status_code = 200 THEN
                    IF JsonError(body) # <<>> THEN "JSONDecodeError"
                    ELSE IF body.form \in {"error_json", "no_message"} THEN "KeyError"
                    ELSE IF body.form = "null_content" THEN "AttributeError"
                    ELSE NoException
                ELSE IF outcome.status_code \in {429, 401} THEN NoException
                ELSE IF body.form # "empty" /\ JsonError(body) # <<>> THEN "JSONDecodeError"
                ELSE NoException

\* the except clauses with the second one missing: only a timeout is caught
ExceptClause_TimeoutOnly(class) ==
    IF class = "Timeout" THEN "except Timeout" ELSE "uncaught"

\* the except clause that takes an exception of the class: the clauses
\* are tried in order, Timeout first, then Exception
ExceptClause(class) ==
    IF class = "Timeout" THEN "except Timeout"
    ELSE IF class \in ExceptionSubclasses THEN "except Exception"
    ELSE "uncaught"

\* the exception that leaves convert_with_groq, NoException when the
\* call returns
Propagated(outcome) ==
    IF RaisedClass(outcome) # NoException /\ ExceptClause(RaisedClass(outcome)) = "uncaught"
    THEN RaisedClass(outcome)
    ELSE NoException

(***************************************************************************)
(* GroqConverter                                                           *)
(***************************************************************************)
\* __init__
GroqConverter ==
    [api_url |-> "https://api.groq.com/openai/v1/chat/completions",
     model |-> "llama3-8b-8192",
     daily_limit |-> 14400,
     rate_limit |-> 30]

\* create_expert_prompt: the f-string, asp_code between its two fixed parts
create_expert_prompt(asp_code) ==
    <<"You are a senior software engineer ... ORIGINAL ASP CODE:", NL>>
    \o asp_code
    \o <<NL, "Convert to C# following the rules above. Return ONLY the converted C# code, no explanations:">>

\* the timeout given to requests.post
RequestTimeout == 30

\* the arguments of the requests.post call
PostRequest(this, asp_code, api_key) ==
    [url |-> this.api_url,
     authorization |-> <<"Bearer", " ">> \o api_key,
     model |-> this.model,
     content |-> create_expert_prompt(asp_code),
     timeout |-> RequestTimeout]

\* the branch response.status_code == 200
OnStatus200(body) ==
    IF JsonError(body) # <<>> THEN MsgException(JsonError(body))
    ELSE IF ContentError(body) # <<>> THEN MsgException(ContentError(body))
    ELSE apply_postprocessing(clean_groq_output(strip(body.content)))

\* the final else branch: any other status
OnOtherStatus(status, body) ==
    IF body.form = "empty" THEN MsgApiError(status, <<"Unknown error">>)
    ELSE IF JsonError(body) # <<>> THEN MsgException(JsonError(body))
    ELSE MsgApiError(status, DictText(body))

\* HandleOutcome with the 429 branch answering the text of the timeout
HandleOutcome_429AsTimeout(outcome) ==
    CASE outcome.kind = "Timeout" -> MsgTimeout
      [] outcome.kind = "ConnectionError" -> MsgException(<<"Connection aborted.">>)
      [] outcome.kind = "response" ->
            IF outcome.status_code = 200 THEN OnStatus200(outcome.body)
            ELSE IF outcome.status_code = 429 THEN MsgTimeout
            ELSE IF outcome.status_code = 401 THEN MsgUnauthorized
            ELSE OnOtherStatus(outcome.status_code, outcome.body)

\* the try block after requests.post, with its two except clauses
HandleOutcome(outcome) ==
    CASE outcome.kind = "Timeout" -> MsgTimeout
      [] outcome.kind = "ConnectionError" -> MsgException(<<"Connection aborted.">>)
      [] outcome.kind = "response" ->
            IF outcome.status_code = 200 THEN OnStatus200(outcome.body)
            ELSE IF outcome.status_code = 429 THEN MsgRateLimited
            ELSE IF outcome.status_code = 401 THEN MsgUnauthorized
            ELSE OnOtherStatus(outcome.status_code, outcome.body)

\* convert_with_groq looking at the key only after the request has gone
\* out: a missing key is answered with its message, but a request was sent
convert_with_groq_KeyCheckedLate(this, asp_code, api_key, outcome) ==
    IF ~Truthy(asp_code) \/ ~IsStr(asp_code)
    THEN [ret |-> MsgInvalidInput, raised |-> NoException, sent |-> <<>>]
    ELSE IF ~Truthy(api_key) \/ ~IsStr(api_key)
    THEN [ret |-> MsgInvalidKey, raised |-> NoException,
          sent |-> <<PostRequest(this, asp_code.s, <<>>)>>]
    ELSE [ret |-> HandleOutcome(outcome),
          raised |-> Propagated(outcome),
          sent |-> <<PostRequest(this, asp_code.s, api_key.s)>>]

\* convert_with_groq posting its request a second time when the first
\* attempt did not answer 200
convert_with_groq_Retry(this, asp_code, api_key, outcome) ==
    IF ~Truthy(asp_code) \/ ~IsStr(asp_code)
    THEN [ret |-> MsgInvalidInput, raised |-> NoException, sent |-> <<>>]
    ELSE IF ~Truthy(api_key) \/ ~IsStr(api_key)
    THEN [ret |-> MsgInvalidKey, raised |-> NoException, sent |-> <<>>]
    ELSE LET req == PostRequest(this, asp_code.s, api_key.s)
             failed == outcome.kind # "response" \/ outcome.status_code # 200
         IN  [ret |-> HandleOutcome(outcome),
              raised |-> Propagated(outcome),
              sent |-> IF failed THEN <<req, req>> ELSE <<req>>]

\* convert_with_groq: the text returned, the exception that leaves the call
\* (NoException when it returns) and the requests sent, given what the
\* upstream does with a request
convert_with_groq(this, asp_code, api_key, outcome) ==
    IF ~Truthy(asp_code) \/ ~IsStr(asp_code)
    THEN [ret |-> MsgInvalidInput, raised |-> NoException, sent |-> <<>>]
    ELSE IF ~Truthy(api_key) \/ ~IsStr(api_key)
    THEN [ret |-> MsgInvalidKey, raised |-> NoException, sent |-> <<>>]
    ELSE [ret |-> HandleOutcome(outcome),
          raised |-> Propagated(outcome),
          sent |-> <<PostRequest(this, asp_code.s, api_key.s)>>]

\* get_usage_info
get_usage_info(this) ==
    [daily_limit |-> this.daily_limit,
     rate_limit |-> this.rate_limit,
     model |-> this.model,
     cost |-> "free"]

(***************************************************************************)
(* State.  self is the converter object, session the streamlit session     *)
(* state main keeps; last is the latest method call with what it returned  *)
(* and the requests it sent; seen collects what the two text filters have  *)
(* returned so far.                                                        *)
(***************************************************************************)
VARIABLES self, session, last, seen

groqVars == <<self, session, last, seen>>

NoOutcome == [kind |-> "none"]

NoCall == [method |-> "none", args |-> <<>>, outcome |-> NoOutcome, ret |-> PyNone, sent |-> <<>>]

Call(method, args, outcome, ret, sent) ==
    [method |-> method, args |-> args, outcome |-> outcome, ret |-> ret, sent |-> sent]

\* the session state as main initialises it
SessionInit == [groq_conversions |-> 0, groq_tokens_used |-> 0]

InitGroq ==
    /\ self = GroqConverter
    /\ session = SessionInit
    /\ last = NoCall
    /\ seen = {}

(***************************************************************************)
(* Inputs                                                                  *)
(***************************************************************************)
AspSample == <<"x"," ","="," ","1">>

AspSample2 == <<"I","f"," ","a"," ","<",">"," ","\"","\""," ","T","h","e","n">>

ApiKeySample == <<"g","s","k","_","1">>

\* completions the model may answer with
ContentFenced == <<BQ,BQ,BQ,"c","s","h","a","r","p",NL,"i","n","t"," ","x"," ","="," ","1",";",NL,BQ,BQ,BQ>>

ContentProse == <<"H","e","r","e",":",NL,"x"," ","="," ","a"," ","A","n","d"," ","b",NL>>

ContentPlain == <<"s","t","r","i","n","g"," ","f"," ","="," ","F","a","l","s","e",";">>

SourceValues == {PyNone, PyInt(7), PyStr(<<>>), PyStr(AspSample), PyStr(AspSample2)}

KeyValues == {PyNone, PyInt(7), PyStr(<<>>), PyStr(ApiKeySample)}

Contents == {<<>>, ContentFenced, ContentProse, ContentPlain}

Bodies ==
    {Body("completion", c) : c \in Contents}
    \cup {Body(f, <<>>) : f \in {"null_content", "error_json", "no_message", "not_json", "empty"}}

StatusCodes == {200, 401, 429, 500, 404}

Outcomes == {Response(st, b) : st \in StatusCodes, b \in Bodies} \cup {RaisesTimeout, RaisesOther}

(***************************************************************************)
(* The method calls                                                        *)
(***************************************************************************)
ConvertWithGroq(asp_code, api_key, outcome) ==
    /\ last = NoCall
    /\ LET r == convert_with_groq(self, asp_code, api_key, outcome)
       IN  last' = Call("convert_with_groq", <<asp_code, api_key>>, outcome,
                        IF r.raised = NoException THEN PyStr(r.ret) ELSE PyRaised(r.raised),
                        r.sent)
    /\ UNCHANGED <<self, session, seen>>

CleanGroqOutput(output) ==
    /\ last = NoCall
    /\ LET r == clean_groq_output(output)
       IN  /\ last' = Call("clean_groq_output", <<PyStr(output)>>, NoOutcome, PyStr(r), <<>>)
           /\ seen' = seen \cup {[method |-> "clean_groq_output", arg |-> output, ret |-> r]}
    /\ UNCHANGED <<self, session>>

ApplyPostprocessing(code) ==
    /\ last = NoCall
    /\ LET r == apply_postprocessing(code)
       IN  /\ last' = Call("apply_postprocessing", <<PyStr(code)>>, NoOutcome, PyStr(r), <<>>)
           /\ seen' = seen \cup {[method |-> "apply_postprocessing", arg |-> code, ret |-> r]}
    /\ UNCHANGED <<self, session>>

CreateExpertPrompt(asp_code) ==
    /\ last = NoCall
    /\ last' = Call("create_expert_prompt", <<PyStr(asp_code)>>, NoOutcome,
                    PyStr(create_expert_prompt(asp_code)), <<>>)
    /\ UNCHANGED <<self, session, seen>>

EstimateTokens(text) ==
    /\ last = NoCall
    /\ last' = Call("estimate_tokens", <<PyStr(text)>>, NoOutcome, PyInt(estimate_tokens(text)), <<>>)
    /\ UNCHANGED <<self, session, seen>>

\* get_usage_info counting itself against the rate limit of the object
GetUsageInfo_CountsCall ==
    /\ last = NoCall
    /\ last' = Call("get_usage_info", <<>>, NoOutcome, [ty |-> "dict", d |-> get_usage_info(self)], <<>>)
    /\ self' = [self EXCEPT !.rate_limit = self.rate_limit - 1]
    /\ UNCHANGED <<session, seen>>

GetUsageInfo ==
    /\ last = NoCall
    /\ last' = Call("get_usage_info", <<>>, NoOutcome, [ty |-> "dict", d |-> get_usage_info(self)], <<>>)
    /\ UNCHANGED <<self, session, seen>>

(***************************************************************************)
\* the caller has taken the value returned: the next call may start (the
\* program is single-threaded, one call runs at a time)
CallReturns ==
    /\ last # NoCall
    /\ last' = NoCall
    /\ UNCHANGED <<self, session, seen>>

(***************************************************************************)
(* The 200 branch of convert_with_groq, step by step: the completion text  *)
(* received, cleaned, post-processed.                                      *)
(***************************************************************************)
VARIABLES content, stage, cleaned_code, final_code

cleanVars == <<content, stage, cleaned_code, final_code>>

IdleClean ==
    /\ content = <<>>
    /\ stage = "idle"
    /\ cleaned_code = <<>>
    /\ final_code = <<>>

\* cleaned_code = self.clean_groq_output(converted_code), converted_code
\* the stripped content
CleanStep ==
    /\ stage = "received"
    /\ cleaned_code' = clean_groq_output(strip(content))
    /\ stage' = "cleaned"
    /\ UNCHANGED <<content, final_code>>

\* final_code = self.apply_postprocessing(cleaned_code); return final_code
PostprocessStep ==
    /\ stage = "cleaned"
    /\ final_code' = apply_postprocessing(cleaned_code)
    /\ stage' = "returned"
    /\ UNCHANGED <<content, cleaned_code>>

(***************************************************************************)
(* The for loop of apply_postprocessing, one correction a step             *)
(***************************************************************************)
VARIABLES code, pp_pc, pp_i, safe_code

postVars == <<code, pp_pc, pp_i, safe_code>>

IdlePost ==
    /\ code = <<>>
    /\ pp_pc = "idle"
    /\ pp_i = 0
    /\ safe_code = <<>>

\* the guard "if not code" and safe_code = str(code).strip()
PostBegin ==
    /\ pp_pc = "called"
    /\ IF code = <<>>
       THEN pp_pc' = "done" /\ safe_code' = <<>> /\ pp_i' = pp_i
       ELSE pp_pc' = "loop" /\ safe_code' = strip(code) /\ pp_i' = 1
    /\ UNCHANGED code

\* one turn of the loop, with the loop's correction put through the re.sub of the turn
PostRule_OnOriginal ==
    /\ pp_pc = "loop"
    /\ pp_i <= NumCorrections
    /\ safe_code' = ApplyCorrection(pp_i, strip(code))
    /\ pp_i' = pp_i + 1
    /\ UNCHANGED <<code, pp_pc>>

\* one turn of the loop
PostRule ==
    /\ pp_pc = "loop"
    /\ pp_i <= NumCorrections
    /\ safe_code' = ApplyCorrection(pp_i, safe_code)
    /\ pp_i' = pp_i + 1
    /\ UNCHANGED <<code, pp_pc>>

\* return safe_code.strip()
PostReturn ==
    /\ pp_pc = "loop"
    /\ pp_i > NumCorrections
    /\ safe_code' = strip(safe_code)
    /\ pp_pc' = "done"
    /\ UNCHANGED <<code, pp_i>>

(***************************************************************************)
(* The rule-based converter of the specification: the Rule Table (4.1).    *)
(* Its listing is not among the sources; the definitions below follow the  *)
(* specification's text, rule by rule, in the order it gives.  The         *)
(* date/time idioms of category 2, whose text the specification does not   *)
(* give, have no entry.                                                    *)
(***************************************************************************)
WS0 == Star(Chr(Whitespace))

WS1 == Plus(Chr(Whitespace))

Word == Plus(Chr(WordChars))

AnyText == Plus(NChr({NL}))

\* a call name(arg): the argument is group 1
CallOf(name) == Cat(<<WB, Lit(name \o <<"(">>), Grp(1, Plus(NChr({")"}))), Lit(<<")">>)>>)

\* a call name(arg1, arg2): the arguments are groups 1 and 2
CallOf2(name) ==
    Cat(<<WB, Lit(name \o <<"(">>), Grp(1, Plus(NChr({",", ")"}))), Lit(<<",">>), WS0,
          Grp(2, Plus(NChr({")"}))), Lit(<<")">>)>>)

\* the head of the combined declare-and-assign forms: Dim name : name = value
DeclareAssign(value) ==
    Cat(<<BOS, Lit(<<"D","i","m">>), WS1, Grp(1, Word), WS0, Lit(<<":">>), WS0, Word, WS0,
          Lit(<<"=">>), Opt(Lit(<<"=">>)), WS0, Grp(2, value), EOS>>)

StaticRewrite(pattern, template) ==
    [pattern |-> pattern, kind |-> "static", rewrite |-> template, boolean_equality |-> FALSE]

ComputedRewrite(pattern, fn) ==
    [pattern |-> pattern, kind |-> "computed", rewrite |-> fn, boolean_equality |-> FALSE]

RuleTable ==
    <<
      \* 1. delimiter stripping
      StaticRewrite(Lit(<<"<","%">>), <<>>),
      StaticRewrite(Lit(<<"%",">">>), <<>>),
      \* 3. query-parameter accessor
      StaticRewrite(Cat(<<Lit(<<"R","e","q","u","e","s","t",".","Q","u","e","r","y","S","t","r","i","n","g","(","\"">>), Grp(1, Plus(NChr({"\""}))), Lit(<<"\"",")">>)>>),
                    <<"R","e","q","u","e","s","t",".","Q","u","e","r","y","[","\"","\\1","\"","]"," ","?","?"," ","\"","\"">>),
      \* 4. string functions
      StaticRewrite(CallOf(<<"L","e","n">>), <<"\\1",".","L","e","n","g","t","h">>),
      StaticRewrite(CallOf2(<<"L","e","f","t">>), <<"\\1",".","S","u","b","s","t","r","i","n","g","(","0",","," ","\\2",")">>),
      StaticRewrite(CallOf2(<<"R","i","g","h","t">>), <<"\\1",".","S","u","b","s","t","r","i","n","g","(","\\1",".","L","e","n","g","t","h"," ","-"," ","\\2",")">>),
      StaticRewrite(CallOf(<<"U","C","a","s","e">>), <<"\\1",".","T","o","U","p","p","e","r","(",")">>),
      StaticRewrite(CallOf(<<"L","C","a","s","e">>), <<"\\1",".","T","o","L","o","w","e","r","(",")">>),
      StaticRewrite(CallOf(<<"T","r","i","m">>), <<"\\1",".","T","r","i","m","(",")">>),
      \* 5. control structures; else with the negative lookahead
      StaticRewrite(Cat(<<WB, Lit(<<"I","f">>), WS1, Grp(1, AnyText), WS1, Lit(<<"T","h","e","n">>), WB>>),
                    <<"i","f"," ","(","\\1",")"," ","{">>),
      StaticRewrite(Cat(<<WB, Lit(<<"E","l","s","e","I","f">>), WS1, Grp(1, AnyText), WS1, Lit(<<"T","h","e","n">>), WB>>),
                    <<"}"," ","e","l","s","e"," ","i","f"," ","(","\\1",")"," ","{">>),
      StaticRewrite(Cat(<<WB, Lit(<<"E","l","s","e">>), WB, NLA(Cat(<<WS0, Lit(<<"I","f">>)>>))>>), <<"}"," ","e","l","s","e"," ","{">>),
      StaticRewrite(Cat(<<WB, Lit(<<"E","n","d">>), WS1, Lit(<<"I","f">>), WB>>), <<"}">>),
      \* 6. literals and operators
      StaticRewrite(Cat(<<WB, Lit(<<"T","r","u","e">>), WB>>), <<"t","r","u","e">>),
      StaticRewrite(Cat(<<WB, Lit(<<"F","a","l","s","e">>), WB>>), <<"f","a","l","s","e">>),
      StaticRewrite(Lit(<<"<",">">>), <<"!","=">>),
      StaticRewrite(Lit(<<" ","="," ">>), <<" ","=","="," ">>),
      StaticRewrite(Cat(<<WB, Lit(<<"A","n","d">>), WB>>), <<"&","&">>),
      StaticRewrite(Cat(<<WB, Lit(<<"O","r">>), WB>>), <<"|","|">>),
      StaticRewrite(Cat(<<WB, Lit(<<"N","o","t">>), WS1>>), <<"!">>),
      StaticRewrite(Cat(<<WS1, Lit(<<"&">>), WS1>>), <<" ","+"," ">>),
      \* 7. a trailing single-quote comment
      StaticRewrite(Cat(<<Lit(<<"'">>), Grp(1, Star(NChr({NL}))), EOS>>), <<"/","/","\\1">>),
      \* 8. structured case
      StaticRewrite(Cat(<<WB, Lit(<<"S","e","l","e","c","t">>), WS1, Lit(<<"C","a","s","e">>), WS1, Grp(1, AnyText), EOS>>),
                    <<"s","w","i","t","c","h"," ","(","\\1",")"," ","{">>),
      StaticRewrite(Cat(<<BOS, Lit(<<"C","a","s","e">>), WS1, Lit(<<"E","l","s","e">>), EOS>>), <<"d","e","f","a","u","l","t",":">>),
      StaticRewrite(Cat(<<BOS, Lit(<<"C","a","s","e">>), WS1, Opt(Lit(<<"\"">>)), Grp(1, Plus(NChr({"\"", NL}))),
                          Opt(Lit(<<"\"">>)), EOS>>),
                    <<"c","a","s","e"," ","\"","\\1","\"",":">>),
      StaticRewrite(Cat(<<WB, Lit(<<"E","n","d">>), WS1, Lit(<<"S","e","l","e","c","t">>), WB>>), <<"}">>),
      \* 9. declarations, most specific first
      ComputedRewrite(DeclareAssign(Alt(<<Lit(<<"T","r","u","e">>), Lit(<<"F","a","l","s","e">>)>>)), "boolean_declaration"),
      StaticRewrite(DeclareAssign(Cat(<<Lit(<<"\"">>), Star(NChr({"\"", NL})), Lit(<<"\"">>)>>)),
                    <<"s","t","r","i","n","g"," ","\\1"," ","="," ","\\2",";">>),
      StaticRewrite(DeclareAssign(Cat(<<Plus(Chr(Digits)), Lit(<<".">>), Plus(Chr(Digits))>>)),
                    <<"d","o","u","b","l","e"," ","\\1"," ","="," ","\\2",";">>),
      StaticRewrite(DeclareAssign(Plus(Chr(Digits))), <<"i","n","t"," ","\\1"," ","="," ","\\2",";">>),
      ComputedRewrite(Cat(<<BOS, Lit(<<"D","i","m">>), WS1,
                            Grp(1, Cat(<<Word, Star(Cat(<<WS0, Lit(<<",">>), WS0, Word>>))>>)), EOS>>),
                      "fan_out"),
      \* 10. trailing equality back to assignment
      StaticRewrite(Cat(<<BOS, Grp(1, Word), WS0, Lit(<<"=","=">>), WS0, Grp(2, AnyText), EOS>>),
                    <<"\\1"," ","="," ","\\2",";">>)
    >>

NumRules == Len(RuleTable)

\* the two fixed post-normalization rules of 4.2, step 4
BooleanPostRules ==
    << StaticRewrite(Cat(<<WB, Grp(1, Word), WS0, Lit(<<"=","=">>), WS0, Lit(<<"t","r","u","e">>), WB>>), <<"\\1"," ","="," ","t","r","u","e",";">>),
       StaticRewrite(Cat(<<WB, Grp(1, Word), WS0, Lit(<<"=","=">>), WS0, Lit(<<"f","a","l","s","e">>), WB>>), <<"\\1"," ","="," ","f","a","l","s","e",";">>) >>

\* one empty-string declaration statement per name
RECURSIVE EmptyStringDeclarations(_)
EmptyStringDeclarations(names) ==
    IF names = <<>> THEN <<>>
    ELSE <<<<"s","t","r","i","n","g"," ">> \o strip(Head(names)) \o <<" ","="," ","\"","\"",";">>>> \o EmptyStringDeclarations(Tail(names))

\* the computed rewrites: the replacement text from the match
Compute(fn, s, g) ==
    CASE fn = "boolean_declaration" ->
            <<"b","o","o","l"," ">> \o GroupText(s, g, 1) \o <<" ","="," ">> \o lower(GroupText(s, g, 2)) \o <<";">>
      [] fn = "fan_out" -> join(NL, EmptyStringDeclarations(split(GroupText(s, g, 1), ",")))

\* the replacement text of a match: the template filled in, or the text the
\* rewrite function computes from the match
Replacement(rule, s, g) ==
    IF rule.kind = "static" THEN Expand(rule.rewrite, s, g) ELSE Compute(rule.rewrite, s, g)

\* a rule applied to the text from position pos on, case-insensitively:
\* every non-overlapping match, left to right, replaced
RECURSIVE ApplyRuleFrom(_, _, _)
ApplyRuleFrom(rule, s, pos) ==
    LET f == SearchFrom(rule.pattern, s, pos, TRUE)
    IN  IF f = <<>> \/ f[2].e = f[1] THEN SubSeq(s, pos, Len(s))
        ELSE SubSeq(s, pos, f[1] - 1) \o Replacement(rule, s, f[2].g)
             \o ApplyRuleFrom(rule, s, f[2].e)

ApplyRule(rule, text) == ApplyRuleFrom(rule, text, 1)

\* isConditionHeader with the context guard left out
isConditionHeader_Never(line) == FALSE

\* Line Context: lowercase(line) startsWith "if " OR "else if "
isConditionHeader(line) ==
    startswith(lower(line), <<"i","f"," ">>) \/ startswith(lower(line), <<"e","l","s","e"," ","i","f"," ">>)

\* rules lo..hi of a rule list applied in order, each to the text the rule
\* before it left (the range is halved so that the evaluation stays
\* shallow; the order of application is lo, lo + 1, ..., hi); 4.2 step 3: a
\* boolean-equality rule is skipped on a conditional header
RECURSIVE ApplyRules(_, _, _, _, _)
ApplyRules(rules, lo, hi, text, header) ==
    IF lo > hi THEN text
    ELSE IF lo = hi
    THEN IF rules[lo].boolean_equality /\ header THEN text ELSE ApplyRule(rules[lo], text)
    ELSE LET mid == (lo + hi) \div 2
             current == ApplyRules(rules, lo, mid, text, header)
         IN  IF Len(current) >= 0 THEN ApplyRules(rules, mid + 1, hi, current, header)
             ELSE current

\* 4.2 steps 3 and 4: the rules a line goes through, the two post-rules
\* only when the line is no conditional header
RulesFor(header) == IF header THEN RuleTable ELSE RuleTable \o BooleanPostRules

\* 4.2 steps 1 to 5: the output chunk of one input line
TransformLineText(line) ==
    LET trimmed == strip(line)
        header == isConditionHeader(trimmed)
    IN  ApplyRules(RulesFor(header), 1, Len(RulesFor(header)), trimmed, header)

(***************************************************************************)
(* The Indentation Formatter of the specification (4.3)                    *)
(***************************************************************************)
IndentUnit == <<" "," "," "," ">>

RECURSIVE Indent(_)
Indent(d) == IF d <= 0 THEN <<>> ELSE IndentUnit \o Indent(d - 1)

IsBareCloseBrace(trimmed) == trimmed = <<"}">>

EndsWithOpenBraceOrColon(trimmed) == endswith(trimmed, <<"{">>) \/ endswith(trimmed, <<":">>)

\* the decrement before the prefix, without the floor
DepthBeforeEmit_NoFloor(d, trimmed) == IF IsBareCloseBrace(trimmed) THEN d - 1 ELSE d

\* the decrement before the prefix, floored at 0
DepthBeforeEmit(d, trimmed) ==
    IF IsBareCloseBrace(trimmed) THEN (IF d > 0 THEN d - 1 ELSE 0) ELSE d

\* the increment after the line is emitted
DepthAfterEmit(d, trimmed) == IF EndsWithOpenBraceOrColon(trimmed) THEN d + 1 ELSE d

VARIABLES fmt_lines, fmt_pc, fmt_i, depth, formatted

fmtVars == <<fmt_lines, fmt_pc, fmt_i, depth, formatted>>

IdleFormat ==
    /\ fmt_lines = <<>>
    /\ fmt_pc = "idle"
    /\ fmt_i = 0
    /\ depth = 0
    /\ formatted = <<>>

\* one line of the pass
FormatLine ==
    /\ fmt_pc = "loop"
    /\ fmt_i <= Len(fmt_lines)
    /\ LET trimmed == strip(fmt_lines[fmt_i])
           d == DepthBeforeEmit(depth, trimmed)
       IN  /\ formatted' = Append(formatted, Indent(d) \o trimmed)
           /\ depth' = DepthAfterEmit(d, trimmed)
    /\ fmt_i' = fmt_i + 1
    /\ UNCHANGED <<fmt_lines, fmt_pc>>

\* the end of the pass; the final depth is discarded
FormatReturn ==
    /\ fmt_pc = "loop"
    /\ fmt_i > Len(fmt_lines)
    /\ fmt_pc' = "done"
    /\ UNCHANGED <<fmt_lines, fmt_i, depth, formatted>>

(***************************************************************************)
(* convert: the Line Transformer, then the Indentation Formatter           *)
(***************************************************************************)
VARIABLES sourceText, cv_pc, src_lines, tr_i, chunks, convertedText

cvVars == <<sourceText, cv_pc, src_lines, tr_i, chunks, convertedText>>

IdleConvert ==
    /\ sourceText = <<>>
    /\ cv_pc = "idle"
    /\ src_lines = <<>>
    /\ tr_i = 0
    /\ chunks = <<>>
    /\ convertedText = <<>>

ConvertBegin ==
    /\ cv_pc = "called"
    /\ src_lines' = split(sourceText, NL)
    /\ tr_i' = 1
    /\ cv_pc' = "transform"
    /\ UNCHANGED <<sourceText, chunks, convertedText, fmtVars>>

\* the transformer with a line whose output is empty left out
TransformLine_DropsEmpty ==
    /\ cv_pc = "transform"
    /\ tr_i <= Len(src_lines)
    /\ chunks' = IF TransformLineText(src_lines[tr_i]) = <<>> THEN chunks
                 ELSE Append(chunks, TransformLineText(src_lines[tr_i]))
    /\ tr_i' = tr_i + 1
    /\ UNCHANGED <<sourceText, cv_pc, src_lines, convertedText, fmtVars>>

\* 4.2: one input line, one output chunk
TransformLine ==
    /\ cv_pc = "transform"
    /\ tr_i <= Len(src_lines)
    /\ chunks' = Append(chunks, TransformLineText(src_lines[tr_i]))
    /\ tr_i' = tr_i + 1
    /\ UNCHANGED <<sourceText, cv_pc, src_lines, convertedText, fmtVars>>

\* 4.2 step 6: the chunks newline-joined, handed to the formatter
TransformReturn ==
    /\ cv_pc = "transform"
    /\ tr_i > Len(src_lines)
    /\ cv_pc' = "format"
    /\ fmt_lines' = split(join(NL, chunks), NL)
    /\ fmt_pc' = "loop"
    /\ fmt_i' = 1
    /\ depth' = 0
    /\ formatted' = <<>>
    /\ UNCHANGED <<sourceText, src_lines, tr_i, chunks, convertedText>>

ConvertReturn ==
    /\ cv_pc = "format"
    /\ fmt_pc = "done"
    /\ convertedText' = join(NL, formatted)
    /\ cv_pc' = "done"
    /\ UNCHANGED <<sourceText, src_lines, tr_i, chunks, fmtVars>>

(***************************************************************************)
(* main: one run of the streamlit script.  page is what the latest run     *)
(* read from its widgets and what it did; attempts lists, in order, the    *)
(* calls of convert_with_groq main has made, each with its source, key,    *)
(* upstream outcome and result.                                            *)
(***************************************************************************)
VARIABLES page, attempts

mainVars == <<page, attempts>>

NoRun ==
    [groq_key |-> <<>>, asp_code |-> <<>>, convert_button |-> FALSE, invoked |-> FALSE,
     result |-> PyNone, sent |-> <<>>]

IdleMain ==
    /\ page = NoRun
    /\ attempts = <<>>

\* the disabled argument of the convert button
ButtonDisabled(groq_key, asp_code) ==
    groq_key = <<>> \/ asp_code = <<>> \/ strip(asp_code) = <<>>

\* the branches that lead to the call: not the missing-key branch, the
\* button pressed and the source non-empty, the trimmed source non-empty
ReachesCall(groq_key, convert_button, asp_code) ==
    /\ groq_key # <<>>
    /\ convert_button /\ asp_code # <<>>
    /\ strip(asp_code) # <<>>

\* the test of the result with its second half missing: any non-empty
\* result counts as a conversion
IsConversion_AnyText(result) == Truthy(result)

\* result and not result.startswith((clock, key, cross))
IsConversion(result) ==
    /\ Truthy(result)
    /\ ~ \/ startswith(result.s, <<MarkClock>>)
         \/ startswith(result.s, <<MarkKey>>)
         \/ startswith(result.s, <<MarkCross>>)

\* the number of calls main makes in a behaviour of the model
MaxAttempts == 2

\* one run of main, given the widget values, whether the convert button
\* was pressed, and what the upstream does if a request reaches it
MainRun(groq_key, asp_code, clicked, outcome) ==
    /\ last = NoCall
    /\ LET convert_button == clicked /\ ~ButtonDisabled(groq_key, asp_code)
           safe_asp_code == strip(asp_code)
           input_tokens == estimate_tokens(safe_asp_code)
       IN  IF ReachesCall(groq_key, convert_button, asp_code) THEN
               /\ Len(attempts) < MaxAttempts
               /\ \E r \in {convert_with_groq(self, PyStr(safe_asp_code), PyStr(groq_key), outcome)} :
                    \E result \in {IF r.raised = NoException THEN PyStr(r.ret)
                                   ELSE PyRaised(r.raised)} :
                        /\ page' = [groq_key |-> groq_key, asp_code |-> asp_code,
                                    convert_button |-> convert_button, invoked |-> TRUE,
                                    result |-> result, sent |-> r.sent]
                        /\ attempts' = Append(attempts,
                                         [input |-> safe_asp_code, groq_key |-> groq_key,
                                          outcome |-> outcome, result |-> result])
                        /\ session' =
                             IF IsConversion(result) THEN
                                 [groq_conversions |-> session.groq_conversions + 1,
                                  groq_tokens_used |-> session.groq_tokens_used
                                        + (input_tokens + estimate_tokens(result.s))]
                             ELSE session
           ELSE
               /\ page' = [groq_key |-> groq_key, asp_code |-> asp_code,
                           convert_button |-> convert_button, invoked |-> FALSE,
                           result |-> PyNone, sent |-> <<>>]
               /\ UNCHANGED <<attempts, session>>
    /\ UNCHANGED <<self, last, seen>>

(***************************************************************************)
(* Texts made of fragments                                                 *)
(***************************************************************************)
RECURSIVE FragmentTexts(_, _)
FragmentTexts(F, n) ==
    IF n = 0 THEN {<<>>}
    ELSE LET P == FragmentTexts(F, n - 1) IN P \cup {p \o f : p \in P, f \in F}

(***************************************************************************)
(* Spec: calls of convert_with_groq with every source, key and upstream    *)
(* outcome of the input sets.                                              *)
(***************************************************************************)
vars == <<groqVars, cleanVars, postVars, fmtVars, cvVars, mainVars>>

Init == InitGroq /\ IdleClean /\ IdlePost /\ IdleFormat /\ IdleConvert /\ IdleMain

NextGroq ==
    \/ \E a \in SourceValues, k \in KeyValues, o \in Outcomes : ConvertWithGroq(a, k, o)
    \/ CallReturns

Next == NextGroq /\ UNCHANGED <<cleanVars, postVars, fmtVars, cvVars, mainVars>>

Spec == Init /\ [][Next]_vars

(***************************************************************************)
(* SpecMethods: every method of the converter, called in any order         *)
(***************************************************************************)
MethodTexts == {<<>>, ContentFenced, ContentProse}

MethodOutcomes ==
    {Response(200, Body("completion", ContentFenced)), Response(429, Body("empty", <<>>)),
     RaisesTimeout}

SessionValues == {SessionInit, [groq_conversions |-> 2, groq_tokens_used |-> 57]}

InitMethods ==
    /\ self = GroqConverter
    /\ session \in SessionValues
    /\ last = NoCall
    /\ seen = {}
    /\ IdleClean
    /\ IdlePost
    /\ IdleFormat
    /\ IdleConvert
    /\ IdleMain

MethodCalls ==
    \/ \E a \in {PyStr(<<>>), PyStr(AspSample)}, k \in {PyNone, PyStr(ApiKeySample)},
          o \in MethodOutcomes : ConvertWithGroq(a, k, o)
    \/ \E t \in MethodTexts : CleanGroqOutput(t)
    \/ \E t \in MethodTexts : ApplyPostprocessing(t)
    \/ \E t \in MethodTexts : CreateExpertPrompt(t)
    \/ \E t \in MethodTexts : EstimateTokens(t)
    \/ GetUsageInfo
    \/ CallReturns

NextMethods == MethodCalls /\ UNCHANGED <<cleanVars, postVars, fmtVars, cvVars, mainVars>>

SpecMethods == InitMethods /\ [][NextMethods]_vars
(***************************************************************************)
(* SpecClean: the 200 branch on every completion text of the input set     *)
(***************************************************************************)
MaxCleanFragments == 3

CleanFragments ==
    { <<BQ>>, <<BQ,BQ,BQ>>, <<"c","s">>, <<NL>>, <<" ">>, <<"/","/","/">>,
      <<"H","e","r","e">>, <<"x",";">> }

CleanSamples ==
    { <<"H","e","r","e"," ","i","s"," ","t","h","e"," ","c","o","d","e",":",NL,BQ,BQ,BQ,"c","s","h","a","r","p",NL,"i","n","t"," ","x"," ","="," ","1",";",NL,BQ,BQ,BQ>>,
      <<BQ,BQ,BQ,"c","#",NL," "," ","b","o","o","l"," ","b"," ","="," ","t","r","u","e",";"," "," ",NL,BQ,BQ,BQ,NL,"N","o","t","e",":"," ","d","o","n","e">>,
      <<"O","u","t","p","u","t",":",NL,NL,"/","/","/"," ","<","s","u","m","m","a","r","y",">",NL,"x"," ","="," ","1",";",NL,"T","h","e"," ","c","o","n","v","e","r","t","e","d"," ","c","o","d","e">>,
      <<"T","h","i","s"," ","c","o","n","v","e","r","t","s"," ","i","t",NL,BQ,BQ,BQ,"c","s",NL,"y",";",NL,BQ,BQ,BQ," ",BQ,BQ,BQ>> }

CleanInputs == FragmentTexts(CleanFragments, MaxCleanFragments) \cup CleanSamples

InitClean ==
    /\ InitGroq
    /\ IdlePost
    /\ IdleFormat
    /\ IdleConvert
    /\ IdleMain
    /\ content \in CleanInputs
    /\ stage = "received"
    /\ cleaned_code = <<>>
    /\ final_code = <<>>

NextClean == (CleanStep \/ PostprocessStep) /\ UNCHANGED <<groqVars, postVars, fmtVars, cvVars, mainVars>>

SpecClean == InitClean /\ [][NextClean]_vars

(***************************************************************************)
(* SpecPost: apply_postprocessing on every text of the input set           *)
(***************************************************************************)
MaxPostFragments == 2

PostFragments ==
    { <<"s","t","r","i","n","g"," ","f"," ","="," ","F","a","l","s","e",";">>,
      <<"A","n","d">>, <<"o","R">>, <<" ">>, <<NL>>, <<";">>,
      <<"}">>, <<" ","&"," ">>, <<"n","o","T"," ">>, <<"L","e","n","(","a",")">>,
      <<"x">> }

PostSamples ==
    { <<"U","B","o","u","n","d","I","s","A","r","r","a","y","(","x",")">>,
      <<"R","e","s","p","o","n","s","e",".","W","r","i","t","e"," ","\"","a","\""," ","&"," ","T","r","i","m","(","b",")",NL,"I","f"," ","a"," ","<",">"," ","b"," ","A","n","d"," ","N","o","t"," ","c"," ","T","h","e","n",NL>>,
      <<"s","t","r","i","n","g"," ","t","=","\"","T","R","U","E","\""," ",";",";",NL,"}"," "," ",";">>,
      <<"x"," ","="," ","S","e","s","s","i","o","n","(","\"","u","\"",")"," ","o","r"," ","R","e","q","u","e","s","t",".","F","o","r","m","(","\"","n","\"",")">> }

PostInputs == FragmentTexts(PostFragments, MaxPostFragments) \cup PostSamples

InitPost ==
    /\ InitGroq
    /\ IdleClean
    /\ IdleFormat
    /\ IdleConvert
    /\ IdleMain
    /\ code \in PostInputs
    /\ pp_pc = "called"
    /\ pp_i = 0
    /\ safe_code = <<>>

NextPost == (PostBegin \/ PostRule \/ PostReturn) /\ UNCHANGED <<groqVars, cleanVars, fmtVars, cvVars, mainVars>>

SpecPost == InitPost /\ [][NextPost]_vars

(***************************************************************************)
(* SpecFormat: the formatter on every sequence of line shapes              *)
(***************************************************************************)
MaxFormatLines == 4

FormatShapes ==
    { <<"}">>, <<"i","f"," ","(","a",")"," ","{">>, <<"}"," ","e","l","s","e"," ","{">>, <<"s","w","i","t","c","h"," ","(","x",")"," ","{">>, <<"c","a","s","e"," ","1",":">>, <<"x"," ","="," ","1",";">> }

RECURSIVE LineSequences(_, _)
LineSequences(L, n) ==
    IF n = 0 THEN {<<>>}
    ELSE LET P == LineSequences(L, n - 1) IN P \cup {Append(p, l) : p \in P, l \in L}

InitFormat ==
    /\ InitGroq
    /\ IdleClean
    /\ IdlePost
    /\ IdleConvert
    /\ IdleMain
    /\ fmt_lines \in LineSequences(FormatShapes, MaxFormatLines) \ {<<>>}
    /\ fmt_pc = "loop"
    /\ fmt_i = 1
    /\ depth = 0
    /\ formatted = <<>>

NextFormat == (FormatLine \/ FormatReturn) /\ UNCHANGED <<groqVars, cleanVars, postVars, cvVars, mainVars>>

SpecFormat == InitFormat /\ [][NextFormat]_vars

(***************************************************************************)
(* SpecConvert: convert on every text of up to MaxSourceLines lines        *)
(***************************************************************************)
MaxSourceLines == 2

SourceLines ==
    { <<"<","%">>, <<"I","f"," ","x"," ","<",">"," ","\"","\""," ","T","h","e","n">>, <<" "," ","I","f"," ","o","k"," ","="," ","T","r","u","e"," ","T","h","e","n">>, <<"e","l","s","e"," ","i","f"," ","o","k"," ","=","="," ","F","a","l","s","e"," ","T","h","e","n">>,
      <<"E","l","s","e">>, <<"E","n","d"," ","I","f">>, <<"i","s","A","c","t","i","v","e"," ","=","="," ","T","r","u","e">>, <<"o","k"," ","=","="," ","f","a","l","s","e"," ">>, <<"D","i","m"," ","a",","," ","b">>,
      <<"C","a","s","e"," ","1">> }

SourceTexts == {join(NL, ls) : ls \in LineSequences(SourceLines, MaxSourceLines) \ {<<>>}} \cup {<<>>}

InitConvert ==
    /\ InitGroq
    /\ IdleClean
    /\ IdlePost
    /\ IdleFormat
    /\ IdleMain
    /\ sourceText \in SourceTexts
    /\ cv_pc = "called"
    /\ src_lines = <<>>
    /\ tr_i = 0
    /\ chunks = <<>>
    /\ convertedText = <<>>

NextConvert ==
    \/ (ConvertBegin \/ TransformLine \/ TransformReturn \/ ConvertReturn)
          /\ UNCHANGED <<groqVars, cleanVars, postVars, mainVars>>
    \/ (FormatLine \/ FormatReturn) /\ UNCHANGED <<groqVars, cleanVars, postVars, cvVars, mainVars>>

SpecConvert == InitConvert /\ [][NextConvert]_vars

(***************************************************************************)
(* SpecMain: runs of main with every widget value and upstream outcome of  *)
(* the input sets                                                          *)
(***************************************************************************)
AspPadded == <<" ", " ">> \o AspSample2 \o <<NL>>

MainKeys == {<<>>, ApiKeySample}

MainSources == {<<>>, <<" ", NL>>, AspSample, AspPadded}

\* a conversion, a completion that is empty, and an answer for each of the
\* three failure marks
MainOutcomes ==
    {Response(200, Body("completion", ContentPlain)),
     Response(200, Body("completion", <<>>)),
     Response(429, Body("empty", <<>>)),
     Response(401, Body("error_json", <<>>)),
     Response(500, Body("error_json", <<>>)),
     RaisesTimeout}

InitMain ==
    /\ InitGroq
    /\ IdleClean
    /\ IdlePost
    /\ IdleFormat
    /\ IdleConvert
    /\ IdleMain

NextMain ==
    \E k \in MainKeys, a \in MainSources, c \in BOOLEAN, o \in MainOutcomes :
        MainRun(k, a, c, o) /\ UNCHANGED <<cleanVars, postVars, fmtVars, cvVars>>

SpecMain == InitMain /\ [][NextMain]_vars

(***************************************************************************)
(* SpecRequests: the two ways a call of convert_with_groq comes about, a   *)
(* run of main and a call made past main with any source and key           *)
(***************************************************************************)
DirectSources == {PyNone, PyStr(<<>>), PyStr(AspSample)}

DirectKeys == {PyInt(7), PyStr(<<>>), PyStr(ApiKeySample)}

RequestOutcomes == {Response(200, Body("completion", ContentPlain)), RaisesTimeout}

NextRequests ==
    \/ \E k \in MainKeys, a \in MainSources, c \in BOOLEAN, o \in RequestOutcomes :
          MainRun(k, a, c, o) /\ UNCHANGED <<cleanVars, postVars, fmtVars, cvVars>>
    \/ \E a \in DirectSources, k \in DirectKeys, o \in RequestOutcomes :
          ConvertWithGroq(a, k, o)
          /\ UNCHANGED <<cleanVars, postVars, fmtVars, cvVars, mainVars>>
    \/ CallReturns /\ UNCHANGED <<cleanVars, postVars, fmtVars, cvVars, mainVars>>

SpecRequests == InitMain /\ [][NextRequests]_vars

(***************************************************************************)
(* The error kinds of the AI path                                          *)
(***************************************************************************)
ErrorKinds == {"InvalidInput", "InvalidCredential", "RateLimited", "Timeout", "UpstreamError"}

\* the kind of failure of a call, from its arguments and from what the
\* upstream did ("Success": a 200 response that holds a completion text)
FailureKind(asp_code, api_key, outcome) ==
    IF ~(IsStr(asp_code) /\ asp_code.s # <<>>) THEN "InvalidInput"
    ELSE IF ~(IsStr(api_key) /\ api_key.s # <<>>) THEN "InvalidCredential"
    ELSE IF outcome.kind = "Timeout" THEN "Timeout"
    ELSE IF outcome.kind # "response" THEN "UpstreamError"
    ELSE IF outcome.status_code = 401 THEN "InvalidCredential"
    ELSE IF outcome.status_code = 429 THEN "RateLimited"
    ELSE IF outcome.status_code = 200 /\ outcome.body.form = "completion" THEN "Success"
    ELSE "UpstreamError"

\* the kinds a user-facing text announces, read off the text alone
KindsOfText(text) ==
    {k \in ErrorKinds :
        \/ k = "InvalidInput" /\ text = MsgInvalidInput
        \/ k = "InvalidCredential" /\ text \in {MsgInvalidKey, MsgUnauthorized}
        \/ k = "RateLimited" /\ text = MsgRateLimited
        \/ k = "Timeout" /\ text = MsgTimeout
        \/ k = "UpstreamError"
              /\ \/ startswith(text, <<MarkCross, " ", "Groq API error">>)
                 \/ startswith(text, <<MarkCross, " ", "error during conversion">>)}

\* the emojis with which main tells a failure from a conversion
FailureMarks == {MarkClock, MarkKey, MarkCross}

IsFailureText(text) == text # <<>> /\ text[1] \in FailureMarks

LastIsConvert == last.method = "convert_with_groq"

LastKind == FailureKind(last.args[1], last.args[2], last.outcome)

(***************************************************************************)
(* C1: every failure of convert_with_groq is answered with the text of     *)
(* its own kind (invalid input, invalid credential, rate limit, timeout,   *)
(* upstream error), the text announces that kind and no other, so the      *)
(* texts of two kinds never coincide, and the text of a failure carries a  *)
(* failure mark: it is never handed on as a conversion.                    *)
(***************************************************************************)
C1_FailureMessages ==
    (LastIsConvert /\ LastKind # "Success") =>
        /\ KindsOfText(last.ret.s) = {LastKind}
        /\ IsFailureText(last.ret.s)

\* a rate-limit answer (429) has been turned into its text
C1_Witness ==
    /\ LastIsConvert
    /\ LastKind = "RateLimited"
    /\ last.ret.s = MsgRateLimited

(***************************************************************************)
(* C2: one invocation of convert_with_groq sends at most one HTTP request, *)
(* with a timeout of 30, whatever the outcome; a failed request is not     *)
(* followed by a second one.                                               *)
(***************************************************************************)
C2_AtMostOneRequest ==
    LastIsConvert =>
        /\ Len(last.sent) <= 1
        /\ \A i \in 1..Len(last.sent) : last.sent[i].timeout = 30

\* a request that timed out, and was the only one sent
C2_Witness ==
    /\ LastIsConvert
    /\ LastKind = "Timeout"
    /\ Len(last.sent) = 1

(***************************************************************************)
(* C11: convert_with_groq is total.  Whatever the source value, the key    *)
(* and the upstream outcome (any status, an empty or malformed body, a 200 *)
(* body without choices or message, a null content, a timeout, another     *)
(* request exception), the call returns a text made of characters and no   *)
(* exception leaves it.                                                    *)
(***************************************************************************)
C11_Total ==
    LastIsConvert =>
        /\ last.ret.ty # "raised"
        /\ IsStr(last.ret)
        /\ DOMAIN last.ret.s = 1..Len(last.ret.s)

\* a 200 answer without 'choices' raised KeyError inside the try block and
\* the call returned the text of the second except clause
C11_Witness ==
    /\ LastIsConvert
    /\ last.outcome.kind = "response"
    /\ last.outcome.status_code = 200
    /\ RaisedClass(last.outcome) = "KeyError"
    /\ last.ret = PyStr(MsgException(<<"'choices'">>))

(***************************************************************************)
(* C12: a request is sent only after both validations have passed.  In a   *)
(* call of convert_with_groq the source is checked first and the key       *)
(* second: a source that is not a non-empty text is answered with the      *)
(* invalid-input message whatever the key, a valid source with a key that  *)
(* is not a non-empty text with the invalid-key message, and in both cases *)
(* no request is sent.  main makes the call only when the key is non-empty *)
(* and the source is non-blank after trimming, and its convert button is   *)
(* off otherwise.                                                          *)
(***************************************************************************)
C12_NonEmptyText(v) == v.ty = "str" /\ v.s # <<>>

C12_ValidatedBeforeRequest ==
    /\ LastIsConvert =>
          LET source == last.args[1]
              key == last.args[2]
          IN  /\ last.sent # <<>> => (C12_NonEmptyText(source) /\ C12_NonEmptyText(key))
              /\ ~C12_NonEmptyText(source) =>
                    (last.ret = PyStr(MsgInvalidInput) /\ last.sent = <<>>)
              /\ (C12_NonEmptyText(source) /\ ~C12_NonEmptyText(key)) =>
                    (last.ret = PyStr(MsgInvalidKey) /\ last.sent = <<>>)
    /\ (page.groq_key = <<>> \/ strip(page.asp_code) = <<>>) =>
          (~page.convert_button /\ ~page.invoked)
    /\ page.invoked => (page.groq_key # <<>> /\ strip(page.asp_code) # <<>>)
    /\ page.sent # <<>> => page.invoked
    /\ \A i \in 1..Len(attempts) :
          attempts[i].groq_key # <<>> /\ strip(attempts[i].input) # <<>>

\* main has made a call with a padded source and a request went out, and a
\* call made past main with a valid source and an empty key was answered
\* with the invalid-key message
C12_Witness ==
    /\ page.invoked
    /\ page.asp_code # strip(page.asp_code)
    /\ Len(page.sent) = 1
    /\ LastIsConvert
    /\ C12_NonEmptyText(last.args[1])
    /\ last.args[2] = PyStr(<<>>)
    /\ last.ret = PyStr(MsgInvalidKey)
    /\ last.sent = <<>>

(***************************************************************************)
(* C13: the session counters change only on a successful conversion.       *)
(* Every error text convert_with_groq returns to main starts with one of   *)
(* the three failure marks.  At every moment groq_conversions is the       *)
(* number of attempts so far whose result was non-empty and carried no     *)
(* failure mark, and groq_tokens_used is the sum, over those attempts, of  *)
(* estimate_tokens of the source and estimate_tokens of the result.  Each  *)
(* such attempt adds exactly 1 and exactly that sum, an attempt that       *)
(* failed or returned the empty text and a run that makes no attempt leave *)
(* both counters as they were, and neither counter ever decreases.         *)
(***************************************************************************)
C13_Succeeded(a) ==
    a.result.ty = "str" /\ a.result.s # <<>> /\ ~IsFailureText(a.result.s)

C13_TokensOf(a) == estimate_tokens(a.input) + estimate_tokens(a.result.s)

RECURSIVE C13_Conversions(_)
C13_Conversions(n) ==
    IF n = 0 THEN 0
    ELSE C13_Conversions(n - 1) + (IF C13_Succeeded(attempts[n]) THEN 1 ELSE 0)

RECURSIVE C13_Tokens(_)
C13_Tokens(n) ==
    IF n = 0 THEN 0
    ELSE C13_Tokens(n - 1) + (IF C13_Succeeded(attempts[n]) THEN C13_TokensOf(attempts[n]) ELSE 0)

C13_ErrorsMarked ==
    \A i \in 1..Len(attempts) :
        LET a == attempts[i]
        IN  FailureKind(PyStr(a.input), PyStr(a.groq_key), a.outcome) # "Success" =>
                (a.result.ty = "str" /\ IsFailureText(a.result.s))

C13_CountersState ==
    /\ C13_ErrorsMarked
    /\ session.groq_conversions = C13_Conversions(Len(attempts))
    /\ session.groq_tokens_used = C13_Tokens(Len(attempts))

C13_CountersStep ==
    /\ session.groq_conversions' >= session.groq_conversions
    /\ session.groq_tokens_used' >= session.groq_tokens_used
    /\ attempts' = attempts => session' = session
    /\ attempts' # attempts =>
          LET a == attempts'[Len(attempts')]
          IN  /\ attempts' = Append(attempts, a)
              /\ IF C13_Succeeded(a)
                  THEN /\ session.groq_conversions' = session.groq_conversions + 1
                       /\ session.groq_tokens_used' = session.groq_tokens_used + C13_TokensOf(a)
                  ELSE session' = session

C13_CountersOnlyOnSuccess == [](C13_CountersState) /\ [][C13_CountersStep]_vars

\* two attempts, a conversion that was counted with its tokens and then a
\* rate-limit answer that left the counters alone
C13_Witness ==
    /\ Len(attempts) = 2
    /\ C13_Succeeded(attempts[1])
    /\ attempts[2].result = PyStr(MsgRateLimited)
    /\ session.groq_conversions = 1
    /\ session.groq_tokens_used = C13_TokensOf(attempts[1])
    /\ session.groq_tokens_used > 0

(***************************************************************************)
(* C8: no method of the converter changes the fields of the object or the  *)
(* session state, and the two text filters answer the same text for the    *)
(* same input whatever was called before.                                  *)
(***************************************************************************)
SameInputSameText ==
    \A c1 \in seen, c2 \in seen :
        (c1.method = c2.method /\ c1.arg = c2.arg) => c1.ret = c2.ret

C8_NoStateRetained ==
    [][self' = self /\ session' = session /\ SameInputSameText']_vars

\* both filters have answered, other methods were called, the object is as constructed
C8_Witness ==
    /\ \E c1 \in seen, c2 \in seen : c1.method # c2.method /\ c1.ret # <<>> /\ c2.ret # <<>>
    /\ last.method = "get_usage_info"
    /\ self = GroqConverter

(***************************************************************************)
(* C3                                                                      *)
(***************************************************************************)
C3_Fence == <<BQ, BQ, BQ>>

C3_Prefixes ==
    { <<"/","/","/">>, <<"H","e","r","e">>, <<"N","o","t","e",":">>,
      <<"T","h","e"," ","c","o","n","v","e","r","t","e","d">>, <<"O","u","t","p","u","t",":">>,
      <<"T","h","i","s"," ","c","o","n","v","e","r","t","s">> }

RECURSIVE IsSubsequence(_, _)
IsSubsequence(xs, ys) ==
    IF xs = <<>> THEN TRUE
    ELSE IF ys = <<>> THEN FALSE
    ELSE IF Head(xs) = Head(ys) THEN IsSubsequence(Tail(xs), Tail(ys))
    ELSE IsSubsequence(xs, Tail(ys))

StrippedLines(text) ==
    LET ls == split(text, NL) IN [i \in 1..Len(ls) |-> strip(ls[i])]

CleanLines == IF cleaned_code = <<>> THEN <<>> ELSE split(cleaned_code, NL)

\* C3: on a 200 response clean_groq_output runs first and
\* apply_postprocessing runs on its result; the cleaned text holds no fence
\* marker, no blank line, no line with leading or trailing whitespace and no
\* line that starts with a prose prefix, and the lines it keeps are lines of
\* the fence-free text in their original order.
C3_CleanThenPostprocess ==
    /\ stage \in {"cleaned", "returned"} =>
        /\ ~contains(cleaned_code, C3_Fence)
        /\ \A i \in 1..Len(CleanLines) :
              LET l == CleanLines[i] IN
                /\ l # <<>>
                /\ l[1] \notin Whitespace
                /\ l[Len(l)] \notin Whitespace
                /\ \A p \in C3_Prefixes : ~startswith(l, p)
        /\ IsSubsequence(CleanLines, StrippedLines(RemoveFences(strip(content))))
    /\ stage = "returned" =>
        /\ final_code = apply_postprocessing(cleaned_code)
        /\ final_code = OnStatus200(Body("completion", content))

\* a completion with a fence, a prose line, a blank line and padded code
\* lines has been cleaned and post-processed, and code came out
C3_Witness ==
    /\ stage = "returned"
    /\ contains(content, C3_Fence)
    /\ \E p \in C3_Prefixes : \E i \in 1..Len(StrippedLines(content)) :
          startswith(StrippedLines(content)[i], p)
    /\ \E i \in 1..Len(split(content, NL)) :
          LET l == split(content, NL)[i] IN l # <<>> /\ l # strip(l) /\ strip(l) # <<>>
    /\ Len(CleanLines) >= 1
    /\ Len(CleanLines) < Len(split(content, NL))
    /\ final_code # <<>>

(***************************************************************************)
(* C4                                                                      *)
(***************************************************************************)
\* corrections 1..k, each applied to the result of the one before it
RECURSIVE ComposeUpTo(_, _)
ComposeUpTo(k, text) ==
    IF k = 0 THEN text
    ELSE LET before == ComposeUpTo(k - 1, text)
         IN  IF Len(before) >= 0 THEN ApplyCorrection(k, before) ELSE before

\* C4: the corrections are applied in declaration order, each to the current
\* text, so that a later correction sees the output of the earlier ones:
\* before turn i the text is corrections 1..i-1 composed on the stripped
\* input, and the value returned is the stripped composition of all of them.
C4_RulesInOrder ==
    /\ pp_pc = "loop" => safe_code = ComposeUpTo(pp_i - 1, strip(code))
    /\ (pp_pc = "done" /\ code # <<>>) =>
          /\ pp_i = NumCorrections + 1
          /\ safe_code = strip(ComposeUpTo(NumCorrections, strip(code)))
    /\ pp_pc = "done" => safe_code = apply_postprocessing(code)

\* the loop has finished on a text where a later correction fired on the
\* output of an earlier one and would not have fired on the input
C4_Witness ==
    /\ pp_pc = "done"
    /\ \E k \in 2..NumCorrections :
          /\ ComposeUpTo(k - 1, strip(code)) # strip(code)
          /\ CorrectionFires(k, ComposeUpTo(k - 1, strip(code)))
          /\ ~CorrectionFires(k, strip(code))

(***************************************************************************)
(* C9                                                                      *)
(***************************************************************************)
SwapCase(s) ==
    [i \in 1..Len(s) |-> IF s[i] \in UpperSet THEN ToLower(s[i]) ELSE ToUpper(s[i])]

upper(s) == [i \in 1..Len(s) |-> ToUpper(s[i])]

FlipAt(s, j) ==
    [i \in 1..Len(s) |-> IF i # j THEN s[i]
                         ELSE IF s[i] \in UpperSet THEN ToLower(s[i]) ELSE ToUpper(s[i])]

CaseVariants(s) ==
    {lower(s), upper(s), SwapCase(s)} \cup {FlipAt(s, j) : j \in 1..Len(s)}

\* C9: every correction is matched case-insensitively: the correction of a
\* turn fires on the current text exactly when it fires on any text that
\* differs from it only in the case of letters.
C9_CaseInsensitive ==
    (pp_pc = "loop" /\ pp_i <= NumCorrections) =>
        \A v \in CaseVariants(safe_code) :
            CorrectionFires(pp_i, v) = CorrectionFires(pp_i, safe_code)

\* a turn whose correction fires on the text although the text does not
\* match the pattern letter for letter
C9_Witness ==
    /\ pp_pc = "loop"
    /\ pp_i <= NumCorrections
    /\ CorrectionFires(pp_i, safe_code)
    /\ ~re_search(corrections[pp_i].pattern, safe_code, FALSE)

(***************************************************************************)
(* C5                                                                      *)
(***************************************************************************)
\* the formatter is about to format a bare closing brace at depth 0
ExcessCloseBrace ==
    /\ fmt_pc = "loop"
    /\ fmt_i <= Len(fmt_lines)
    /\ strip(fmt_lines[fmt_i]) = <<"}">>
    /\ depth = 0

\* C5: the formatter's depth starts at 0 and is never negative, whatever the
\* lines; a bare closing brace met at depth 0 leaves the depth at 0 and is
\* emitted at column 0, and the pass goes on.
C5_DepthNeverNegative ==
    /\ []((fmt_pc = "loop" /\ fmt_i = 1) => depth = 0)
    /\ [](depth >= 0)
    /\ [][ExcessCloseBrace =>
            /\ depth' = 0
            /\ formatted' = Append(formatted, <<"}">>)
            /\ fmt_i' = fmt_i + 1
            /\ fmt_pc' = "loop"]_vars

\* a closing brace in excess has been emitted: the first line of the text is
\* a bare closing brace, the second closes nothing either
C5_Witness ==
    /\ fmt_pc = "done"
    /\ Len(fmt_lines) >= 3
    /\ fmt_lines[1] = <<"}">>
    /\ fmt_lines[2] = <<"}">>
    /\ formatted[1] = <<"}">>
    /\ formatted[2] = <<"}">>
    /\ depth > 0

(***************************************************************************)
(* C6                                                                      *)
(***************************************************************************)
C6_IsHeader(line) ==
    LET l == lower(line)
    IN  \/ (Len(l) >= 3 /\ SubSeq(l, 1, 3) = <<"i","f"," ">>)
        \/ (Len(l) >= 8 /\ SubSeq(l, 1, 8) = <<"e","l","s","e"," ","i","f"," ">>)

C6_BooleanLiteral == Alt(<<Lit(<<"t","r","u","e">>), Lit(<<"f","a","l","s","e">>)>>)

\* the exact shape identifier == true|false; the literal is group 2
C6_BooleanEqualityShape ==
    Cat(<<BOS, Grp(1, Word), Lit(<<" ","=","="," ">>), Grp(2, C6_BooleanLiteral), EOS>>)

\* a comparison with a boolean literal, written with = or ==
C6_ComparesBoolean ==
    Cat(<<WB, Word, Lit(<<" ","=">>), Opt(Lit(<<"=">>)), Lit(<<" ">>), C6_BooleanLiteral, WB>>)

\* a C# comparison with a boolean literal
C6_KeptComparison == Cat(<<WB, Word, Lit(<<" ","=","="," ">>), Alt(<<Lit(<<"t","r","u","e">>), Lit(<<"f","a","l","s","e">>)>>), WB>>)

\* a terminated assignment of a boolean literal
C6_BooleanAssignment ==
    Cat(<<WB, Word, Lit(<<" ","="," ">>), Alt(<<Lit(<<"t","r","u","e">>), Lit(<<"f","a","l","s","e">>)>>), Lit(<<";">>)>>)

C6_ExpectedAssignment(line) ==
    LET m == MatchAt(C6_BooleanEqualityShape, line, 1, TRUE)[1]
    IN  GroupText(line, m.g, 1) \o <<" ","="," ">> \o lower(GroupText(line, m.g, 2)) \o <<";">>

LineCount(text) == Len(split(text, NL))

RECURSIVE ChunkLines(_)
ChunkLines(cs) == IF cs = <<>> THEN <<>> ELSE split(Head(cs), NL) \o ChunkLines(Tail(cs))

C7_OneChunkPerLine ==
    /\ cv_pc \in {"transform", "format", "done"} =>
          /\ src_lines = split(sourceText, NL)
          /\ Len(chunks) = tr_i - 1
          /\ Len(chunks) <= Len(src_lines)
    /\ cv_pc = "transform" =>
          \A k \in 1..Len(chunks) : chunks[k] = TransformLineText(src_lines[k])
    /\ cv_pc \in {"format", "done"} =>
          /\ Len(chunks) = LineCount(sourceText)
          /\ fmt_lines = ChunkLines(chunks)
          /\ Len(formatted) <= Len(fmt_lines)
          /\ \A j \in 1..Len(formatted) : strip(formatted[j]) = strip(fmt_lines[j])
    /\ cv_pc = "done" =>
          /\ LineCount(convertedText) = Len(ChunkLines(chunks))
          /\ LineCount(convertedText) >= LineCount(sourceText)

\* a step of convert is possible: no position of convert is an error stop
C7_CanStep ==
    \/ cv_pc \in {"called", "transform"}
    \/ cv_pc = "format" /\ fmt_pc \in {"loop", "done"}

\* the steps convert has left, phase by phase
C7_StepsLeft ==
    CASE cv_pc = "called" -> 4000
      [] cv_pc = "transform" -> 3000 + (Len(src_lines) + 1 - tr_i)
      [] cv_pc = "format" /\ fmt_pc = "loop" -> 2000 + (Len(fmt_lines) + 1 - fmt_i)
      [] cv_pc = "format" /\ fmt_pc # "loop" -> 1000
      [] OTHER -> 0

\* C7: for every input convert terminates without error (every step brings
\* the return nearer and no position short of the return is a stop), with
\* at least as many output lines as input lines: each input line gives
\* exactly one chunk, the chunks are in input order, and the lines of a
\* chunk stay together and in order.
C7_ConvertTotal ==
    /\ [](C7_OneChunkPerLine /\ C7_StepsLeft >= 0 /\ (cv_pc # "done" => C7_CanStep))
    /\ [][C7_StepsLeft' < C7_StepsLeft]_vars

\* convert has returned on a text with a fan-out line and a line whose
\* output is empty
C7_Witness ==
    /\ cv_pc = "done"
    /\ LineCount(convertedText) > LineCount(sourceText)
    /\ LineCount(sourceText) >= 2
    /\ \E k \in 1..Len(chunks) : chunks[k] = <<>>
    /\ \E k \in 1..Len(chunks) : LineCount(chunks[k]) = 2

(***************************************************************************)
(* C10                                                                     *)
(***************************************************************************)
IndentOf(line) == Len(line) - Len(lstrip(line))

\* the open-brace lines not yet closed after lines 1..k, innermost last
RECURSIVE OpenBraceLines(_, _)
OpenBraceLines(lines, k) ==
    IF k = 0 THEN <<>>
    ELSE LET before == OpenBraceLines(lines, k - 1)
             t == strip(lines[k])
             closed == IF startswith(t, <<"}">>) /\ before # <<>>
                       THEN SubSeq(before, 1, Len(before) - 1) ELSE before
         IN  IF endswith(t, <<"{">>) THEN Append(closed, k) ELSE closed

\* C10: a line holding only a closing brace, at nesting depth >= 1, is
\* indented one level (four spaces) shallower than the body of the block it
\* closes and at the level of the open-brace line it closes; the pass
\* changes leading whitespace only.
C10_CloseBraceAtOpenLevel ==
    fmt_pc = "done" =>
        /\ Len(formatted) = Len(fmt_lines)
        /\ \A j \in 1..Len(formatted) : strip(formatted[j]) = strip(fmt_lines[j])
        /\ \A j \in 1..Len(fmt_lines) :
              (strip(fmt_lines[j]) = <<"}">> /\ OpenBraceLines(fmt_lines, j - 1) # <<>>) =>
                  LET open == OpenBraceLines(fmt_lines, j - 1)
                      o == open[Len(open)]
                  IN  /\ IndentOf(formatted[j]) = IndentOf(formatted[o])
                      /\ \A b \in (o + 1)..(j - 1) :
                            (OpenBraceLines(fmt_lines, b - 1) = open
                               /\ ~startswith(strip(fmt_lines[b]), <<"}">>)) =>
                                IndentOf(formatted[b]) = IndentOf(formatted[j]) + 4

=============================================================================
